---- MODULE Spec2Model ----
(***************************************************************************)
(* Session and fan-out core of txapi: the two producers publishing into    *)
(* the per-topic broadcast channels, and, per websocket session, the       *)
(* handle task with its read (inbound) and write (outbound) tasks sharing  *)
(* one WsClient registry behind a mutex.                                   *)
(***************************************************************************)
EXTENDS Naturals, Integers, Sequences, FiniteSets, TLC

\* ------------------------------------------------------------------ bounds
\* Runs of one client that sends commands on the transactions channel: the
\* number of transactions and heartbeats the producers generate, and of frames
\* the client sends.
MaxTx == 2
MaxHb == 1
MaxFrames == 2
\* The same for the runs of one client that sends any frame.
InTx == 1
InHb == 1
InFrames == 2
\* The same for the runs under fair scheduling.
FairTx == 1
FairHb == 1
FairFrames == 1
\* The same for the runs of two clients, of which the first sends commands
\* and may break its socket; these runs publish transactions only.
TwoTx == 2
TwoFrames == 1
\* The same for the runs in which the shutdown signal may come.
ShutTx == 1
ShutHb == 1
ShutFrames == 1
\* The runs of one client that falls behind: the buffer size the transactions
\* channel is created with, the transactions published and the frames sent.
LagSize == 3
LagTx == 5
LagFrames == 1
\* Buffer sizes the broadcast channels are created with (100 or the value of
\* BROADCAST_BUFFER_SIZE, and 16, in the program; scaled down).
TxCap == 1
HbCap == 1
\* Transactions and heartbeats in the runs about the write loop's select.
RaceTx == 2
RaceHb == 1
\* Transactions and inbound frames in the runs about the session's locks.
LockTx == 1
LockFrames == 2

\* ------------------------------------------------------------------ constants
Sessions == {1, 2}
Topics == {"heartbeat", "transactions"}
\* Channel names a client can put in params.channel.
ChannelNames == {"heartbeat", "transactions", "bogus"}
Methods == {"subscribe", "unsubscribe"}
NoRx == -1
NoMsg == [method |-> "none", channel |-> "none"]

\* Inbound frames: text frames that parse as a command envelope, text frames
\* that do not, and non-text frames (binary, ping, pong, close).
CmdFrames == [kind : {"text"}, method : Methods, channel : ChannelNames]
Frames ==
    CmdFrames \cup {[kind |-> "malformed", method |-> "none", channel |-> "none"],
                    [kind |-> "nontext", method |-> "none", channel |-> "none"]}

\* The commands on the transactions channel.
TxCmdFrames == {f \in CmdFrames : f.channel = "transactions"}


VARIABLES
    cancelled,   \* the CancellationToken
    prod,        \* per topic: the producer task, "running" or "stopped"
    gen,         \* per topic: number of events the producer has generated
    log,         \* per topic: the events the channel accepted, in order
    hpc,         \* per session: the handle task
    rpc,         \* per session: the read task
    wpc,         \* per session: the write task
    rabort,      \* per session: read_task.abort() was called
    wabort,      \* per session: write_task.abort() was called
    cur,         \* per session: the command the read task holds
    hand,        \* per session: the event the write task holds
    rx,          \* per session, per topic: next position of the receive handle
    reg,         \* per session: WsClient.channels
    clientLock,  \* per session: holder of the client mutex
    senderLock,  \* per session: holder of the sink mutex
    sinkOk,      \* per session: writes to the socket succeed
    nframes,     \* per session: inbound frames read so far
    sock,        \* per session: frames written to the socket
    hist,        \* per session: history of what the tasks did
    lim          \* what the environment does in this run at most

vars == <<cancelled, prod, gen, log, hpc, rpc, wpc, rabort, wabort, cur, hand,
          rx, reg, clientLock, senderLock, sinkOk, nframes, sock, hist, lim>>

hubVars == <<cancelled, prod, gen, log, lim>>
\* What a session's tasks read and write.
sessionVars == <<hpc, rpc, wpc, rabort, wabort, cur, hand, rx, reg, clientLock,
                 senderLock, sinkOk, nframes, sock>>

\* broadcast::channel(buffer_size) rounds the size up to a power of two: that
\* many slots are allocated and that many events are retained.
RECURSIVE PowerOfTwoFrom(_, _)
PowerOfTwoFrom(p, n) == IF p >= n THEN p ELSE PowerOfTwoFrom(2 * p, n)
\* Mutant: the channel allocates exactly the size it is asked for.
next_power_of_two_exact(n) == n
next_power_of_two(n) == PowerOfTwoFrom(1, n)
Cap(t) == next_power_of_two(lim.size[t])

\* ------------------------------------------------------------------ pure functions
Channels == {"Heartbeat", "Transactions"}

\* Mutant: a name that is no channel falls back to Transactions.
Channel_from_str_default(name) ==
    IF name = "heartbeat" THEN [ok |-> TRUE, channel |-> "Heartbeat"]
    ELSE [ok |-> TRUE, channel |-> "Transactions"]

\* impl FromStr for Channel
Channel_from_str(name) ==
    IF name = "heartbeat" THEN [ok |-> TRUE, channel |-> "Heartbeat"]
    ELSE IF name = "transactions" THEN [ok |-> TRUE, channel |-> "Transactions"]
    ELSE [ok |-> FALSE, channel |-> "none"]

\* Mutant: subscribe toggles the membership.
subscribe_toggle(r, c) == IF c \in r THEN r \ {c} ELSE r \cup {c}
\* WsClient::subscribe, WsClient::unsubscribe, WsClient::is_subscribed
subscribe(r, c) == r \cup {c}
unsubscribe(r, c) == r \ {c}
is_subscribed(r, c) == c \in r

\* serde_json::from_str::<WsMessage>: only a text frame holding a command
\* envelope parses.
ParseWsMessage(f) ==
    IF f.kind = "text" /\ f.method \in Methods
    THEN [ok |-> TRUE, msg |-> [method |-> f.method, channel |-> f.channel]]
    ELSE [ok |-> FALSE, msg |-> NoMsg]

\* Mutant: the unsubscribe arm calls subscribe like the subscribe arm.
handle_incoming_bothSubscribe(msg, r) ==
    LET parsed == Channel_from_str(msg.channel) IN
    IF ~parsed.ok THEN r ELSE subscribe(r, parsed.channel)

\* handle_incoming: the registry after the command.
handle_incoming(msg, r) ==
    LET parsed == Channel_from_str(msg.channel) IN
    IF ~parsed.ok THEN r
    ELSE IF msg.method = "subscribe" THEN subscribe(r, parsed.channel)
    ELSE unsubscribe(r, parsed.channel)

\* Mutant: the heartbeat arm filters by the registry like the transactions arm.
ForwardHeartbeat_filtered(r) == is_subscribed(r, "Heartbeat")
\* The write task's heartbeat arm sends whatever the registry holds.
ForwardHeartbeat(r) == TRUE
\* Mutant: the transactions arm asks the registry for the wrong channel.
ForwardTransaction_wrongChannel(r) == is_subscribed(r, "Heartbeat")
\* Mutant: the transactions arm forwards without asking the registry.
ForwardTransaction_unfiltered(r) == TRUE
\* The write task's transaction arm sends only to a subscribed client.
ForwardTransaction(r) == is_subscribed(r, "Transactions")

\* Mutant: a new handle starts at the oldest event the channel ever accepted.
AttachPos_replay(l) == 0
\* broadcast::Sender::subscribe: a new handle starts at the channel's tail.
AttachPos(l) == Len(l)

\* Mutant: the channel retains nothing once an event is published.
Oldest_none(l, c) == Len(l)
\* broadcast::Receiver::recv on a handle at position pos of a channel that
\* accepted l and retains its last c events.
Oldest(l, c) == IF Len(l) > c THEN Len(l) - c ELSE 0
\* Mutant: recv yields the retained events newest first.
Recv_newestFirst(pos, l, c) ==
    IF pos < Oldest(l, c)
    THEN [err |-> "lagged", next |-> Oldest(l, c), id |-> 0]
    ELSE IF pos < Len(l)
    THEN [err |-> "none", next |-> pos + 1,
          id |-> l[Len(l) - (pos - Oldest(l, c))]]
    ELSE [err |-> "closed", next |-> pos, id |-> 0]

Recv(pos, l, c) ==
    IF pos < Oldest(l, c)
    THEN [err |-> "lagged", next |-> Oldest(l, c), id |-> 0]
    ELSE IF pos < Len(l)
    THEN [err |-> "none", next |-> pos + 1, id |-> l[pos + 1]]
    ELSE [err |-> "closed", next |-> pos, id |-> 0]

Attached(s, t) == rx[s][t] # NoRx
Receivers(t) == {s \in Sessions : Attached(s, t)}

\* Mutant: init_app_state drops the senders as it drops the receivers.
Retained_none == {}
\* The sender handles of a topic's channel: the one init_app_state stores in
\* AppState, and the producer task's tx_clone for as long as the task lives.
\* The channel is closed when no sender is left.
Retained == {"state"}
Senders(t) == Retained \cup (IF prod[t] = "running" THEN {"producer"} ELSE {})
Closed(t) == Senders(t) = {}

\* The session's state as the design names it: Open while both tasks run,
\* HalfClosing from the end of one task until the other, which handle aborts
\* before it returns, is dropped, and Closed from then on.
Halves(s) == {rpc[s], wpc[s]}
SessionState(s) ==
    IF hpc[s] = "done" /\ Halves(s) \subseteq {"done", "aborted"} THEN "Closed"
    ELSE IF /\ hpc[s] \in {"select", "done"}
            /\ Halves(s) \cap {"done", "aborted"} # {}
    THEN "HalfClosing"
    ELSE IF hpc[s] = "select" THEN "Open"
    ELSE "None"

\* ------------------------------------------------------------------ initial state
NoFrame == [kind |-> "none", method |-> "none", channel |-> "none"]
NoHist ==
    [checks |-> {}, rcvd |-> {}, hbSeen |-> {}, failed |-> {},
     over |-> {}, overSize |-> {}, errs |-> {}, sinceCancel |-> {},
     att |-> [t \in Topics |-> NoRx],
     pubUnsub |-> {}, pubAfterSub |-> {}, preSub |-> {}, subbed |-> FALSE,
     last |-> NoFrame, regBefore |-> {}]

InitWith(present, limits) ==
    /\ lim = limits
    /\ cancelled = FALSE
    /\ prod = [t \in Topics |-> "running"]
    /\ gen = [t \in Topics |-> 0]
    /\ log = [t \in Topics |-> <<>>]
    /\ hpc = [s \in Sessions |-> IF s \in present THEN "none" ELSE "absent"]
    /\ rpc = [s \in Sessions |-> "idle"]
    /\ wpc = [s \in Sessions |-> "idle"]
    /\ rabort = [s \in Sessions |-> FALSE]
    /\ wabort = [s \in Sessions |-> FALSE]
    /\ cur = [s \in Sessions |-> NoMsg]
    /\ hand = [s \in Sessions |-> 0]
    /\ rx = [s \in Sessions |-> [t \in Topics |-> NoRx]]
    /\ reg = [s \in Sessions |-> {}]
    /\ clientLock = [s \in Sessions |-> "free"]
    /\ senderLock = [s \in Sessions |-> "free"]
    /\ sinkOk = [s \in Sessions |-> TRUE]
    /\ nframes = [s \in Sessions |-> 0]
    /\ sock = [s \in Sessions |-> <<>>]
    /\ hist = [s \in Sessions |-> NoHist]

\* One client connects in the run.
Init ==
    InitWith({1}, [transactions |-> MaxTx, heartbeat |-> MaxHb,
                   frames |-> [s \in Sessions |-> MaxFrames],
                   alphabet |-> TxCmdFrames, breaks |-> Sessions,
                   size |-> [transactions |-> TxCap, heartbeat |-> HbCap]])
\* One client connects and sends frames of every kind.
InitInbound ==
    InitWith({1}, [transactions |-> InTx, heartbeat |-> InHb,
                   frames |-> [s \in Sessions |-> InFrames],
                   alphabet |-> Frames, breaks |-> Sessions,
                   size |-> [transactions |-> TxCap, heartbeat |-> HbCap]])
\* One client connects, in the runs under fair scheduling.
InitFair ==
    InitWith({1}, [transactions |-> FairTx, heartbeat |-> FairHb,
                   frames |-> [s \in Sessions |-> FairFrames],
                   alphabet |-> TxCmdFrames, breaks |-> Sessions,
                   size |-> [transactions |-> TxCap, heartbeat |-> HbCap]])
\* Two clients connect in the run.
InitTwo ==
    InitWith(Sessions, [transactions |-> TwoTx, heartbeat |-> 0,
                        frames |-> [s \in Sessions |-> IF s = 1 THEN TwoFrames ELSE 0],
                        alphabet |-> TxCmdFrames, breaks |-> {1},
                        size |-> [transactions |-> TxCap, heartbeat |-> HbCap]])
\* One client connects, and the shutdown signal may come.
InitShut ==
    InitWith({1}, [transactions |-> ShutTx, heartbeat |-> ShutHb,
                   frames |-> [s \in Sessions |-> ShutFrames],
                   alphabet |-> TxCmdFrames, breaks |-> Sessions,
                   size |-> [transactions |-> TxCap, heartbeat |-> HbCap]])
\* The same with a client that sends one frame, for the runs under a fair
\* choice of the producers' select.
InitShutFair ==
    InitWith({1}, [transactions |-> ShutTx, heartbeat |-> ShutHb,
                   frames |-> [s \in Sessions |-> 1],
                   alphabet |-> TxCmdFrames, breaks |-> Sessions,
                   size |-> [transactions |-> TxCap, heartbeat |-> HbCap]])
\* One client connects and may fall behind on the transactions channel, which
\* is created with a size that is no power of two.
InitLag ==
    InitWith({1}, [transactions |-> LagTx, heartbeat |-> 0,
                   frames |-> [s \in Sessions |-> LagFrames],
                   alphabet |-> TxCmdFrames, breaks |-> Sessions,
                   size |-> [transactions |-> LagSize, heartbeat |-> HbCap]])
\* One client connects and sends two commands while transactions flow, under
\* fair scheduling.
InitLock ==
    InitWith({1}, [transactions |-> LockTx, heartbeat |-> 0,
                   frames |-> [s \in Sessions |-> LockFrames],
                   alphabet |-> TxCmdFrames, breaks |-> Sessions,
                   size |-> [transactions |-> TxCap, heartbeat |-> HbCap]])
\* One client connects and subscribes to transactions while events of both
\* topics are published, under fair scheduling.
InitRace ==
    InitWith({1}, [transactions |-> RaceTx, heartbeat |-> RaceHb,
                   frames |-> [s \in Sessions |-> 1],
                   alphabet |-> {f \in TxCmdFrames : f.method = "subscribe"},
                   breaks |-> Sessions,
                   size |-> [transactions |-> TxCap, heartbeat |-> HbCap]])

\* ------------------------------------------------------------------ producers
\* Mutant: the channel stores the event also when it has no receiver.
Send_keeps(l, id, receivers) == Append(l, id)
\* broadcast::Sender::send: with no receiver the event is returned to the
\* caller and the channel keeps nothing; otherwise it is appended.
Send(l, id, receivers) == IF receivers = {} THEN l ELSE Append(l, id)

\* One iteration of a producer loop taking the stream arm of its select.
Publish(t) ==
    /\ prod[t] = "running"
    /\ gen[t] < lim[t]
    /\ gen' = [gen EXCEPT ![t] = @ + 1]
    /\ log' = [log EXCEPT ![t] = Send(@, gen[t] + 1, Receivers(t))]
    /\ hist' = [s \in Sessions |->
                 [hist[s] EXCEPT
                    !.over = IF Attached(s, t) /\ Len(log[t]) + 1 - rx[s][t] > Cap(t)
                             THEN @ \cup {t} ELSE @,
                    !.overSize = IF /\ Attached(s, t)
                                    /\ Len(log[t]) + 1 - rx[s][t] > lim.size[t]
                                 THEN @ \cup {t} ELSE @,
                    !.pubUnsub = IF t = "transactions" /\ "Transactions" \notin reg[s]
                                 THEN @ \cup {gen[t] + 1} ELSE @,
                    !.pubAfterSub = IF t = "transactions" /\ hist[s].subbed
                                    THEN @ \cup {gen[t] + 1} ELSE @]]
    /\ UNCHANGED <<cancelled, prod, lim, hpc, rpc, wpc, rabort, wabort, cur, hand,
                   rx, reg, clientLock, senderLock, sinkOk, nframes, sock>>

\* Mutant: the signal also aborts the tasks of every session.
Cancel_sessions ==
    /\ ~cancelled
    /\ cancelled' = TRUE
    /\ rabort' = [s \in Sessions |-> TRUE]
    /\ wabort' = [s \in Sessions |-> TRUE]
    /\ UNCHANGED <<prod, gen, log, lim, hpc, rpc, wpc, cur, hand,
                   rx, reg, clientLock, senderLock, sinkOk, nframes, sock, hist>>

\* shutdown_signal: the token is cancelled.
Cancel ==
    /\ ~cancelled
    /\ cancelled' = TRUE
    /\ UNCHANGED <<prod, gen, log, lim, hpc, rpc, wpc, rabort, wabort, cur, hand,
                   rx, reg, clientLock, senderLock, sinkOk, nframes, sock, hist>>

\* Mutant: the cancelled arm publishes the event at hand before it breaks.
ProducerExit_flush(t) ==
    /\ cancelled
    /\ prod[t] = "running"
    /\ prod' = [prod EXCEPT ![t] = "stopped"]
    /\ gen' = [gen EXCEPT ![t] = @ + 1]
    /\ log' = [log EXCEPT ![t] = Send(@, gen[t] + 1, Receivers(t))]
    /\ UNCHANGED <<cancelled, lim, hpc, rpc, wpc, rabort, wabort, cur,
                   hand, rx, reg, clientLock, senderLock, sinkOk, nframes, sock, hist>>

\* One iteration of a producer loop taking the cancelled arm: break.
ProducerExit(t) ==
    /\ cancelled
    /\ prod[t] = "running"
    /\ prod' = [prod EXCEPT ![t] = "stopped"]
    /\ UNCHANGED <<cancelled, gen, log, lim, hpc, rpc, wpc, rabort, wabort, cur,
                   hand, rx, reg, clientLock, senderLock, sinkOk, nframes, sock, hist>>

\* ------------------------------------------------------------------ handle
\* Mutant: a connection that has completed is upgraded again.
Upgrade_reopen(s) ==
    /\ hpc[s] \in {"none", "done"}
    /\ rpc[s] \in {"idle", "done", "aborted"}
    /\ wpc[s] \in {"idle", "done", "aborted"}
    /\ hpc' = [hpc EXCEPT ![s] = "select"]
    /\ rpc' = [rpc EXCEPT ![s] = "next"]
    /\ wpc' = [wpc EXCEPT ![s] = "start"]
    /\ reg' = [reg EXCEPT ![s] = {}]
    /\ rabort' = [rabort EXCEPT ![s] = FALSE]
    /\ wabort' = [wabort EXCEPT ![s] = FALSE]
    /\ UNCHANGED <<hubVars, cur, hand, rx, clientLock, senderLock,
                   sinkOk, nframes, sock, hist>>

\* handle: the socket is split, the registry created empty, both tasks spawned.
Upgrade(s) ==
    /\ hpc[s] = "none"
    /\ hpc' = [hpc EXCEPT ![s] = "select"]
    /\ rpc' = [rpc EXCEPT ![s] = "next"]
    /\ wpc' = [wpc EXCEPT ![s] = "start"]
    /\ reg' = [reg EXCEPT ![s] = {}]
    /\ UNCHANGED <<hubVars, rabort, wabort, cur, hand, rx, clientLock, senderLock,
                   sinkOk, nframes, sock, hist>>

\* Mutant: the select arm logs the result and aborts nothing.
AbortOther_none(s) == UNCHANGED <<rabort, wabort>>

\* handle's select: the task that finished first wins and the other is aborted.
AbortOther(s) ==
    IF rpc[s] = "done"
    THEN /\ wabort' = [wabort EXCEPT ![s] = TRUE]
         /\ UNCHANGED rabort
    ELSE /\ rabort' = [rabort EXCEPT ![s] = TRUE]
         /\ UNCHANGED wabort

HandleSelect(s) ==
    /\ hpc[s] = "select"
    /\ (rpc[s] = "done" \/ wpc[s] = "done")
    /\ AbortOther(s)
    /\ hpc' = [hpc EXCEPT ![s] = "done"]
    /\ UNCHANGED <<hubVars, rpc, wpc, cur, hand, rx, reg, clientLock, senderLock,
                   sinkOk, nframes, sock, hist>>

\* An aborted task is dropped at its next suspension point: its receive
\* handles and lock guards go with it.
ReadSuspended(s) == rpc[s] \in {"next", "lock"}
WriteSuspended(s) == wpc[s] \in {"start", "select", "tx_lock", "hb_send", "tx_send"}

TaskCancelled(s) ==
    /\ (wabort[s] /\ WriteSuspended(s)) \/ (rabort[s] /\ ReadSuspended(s))
    /\ IF wabort[s] /\ WriteSuspended(s)
       THEN /\ wpc' = [wpc EXCEPT ![s] = "aborted"]
            /\ rx' = [rx EXCEPT ![s] = [t \in Topics |-> NoRx]]
            /\ hand' = [hand EXCEPT ![s] = 0]
            /\ clientLock' = [clientLock EXCEPT ![s] = IF @ = "write" THEN "free" ELSE @]
            /\ senderLock' = [senderLock EXCEPT ![s] = "free"]
            /\ UNCHANGED <<rpc, cur>>
       ELSE /\ rpc' = [rpc EXCEPT ![s] = "aborted"]
            /\ cur' = [cur EXCEPT ![s] = NoMsg]
            /\ UNCHANGED <<wpc, rx, hand, clientLock, senderLock>>
    /\ UNCHANGED <<hubVars, hpc, rabort, wabort, reg, sinkOk, nframes, sock, hist>>

\* ------------------------------------------------------------------ read task
\* Mutant: a frame that is no command ends the read loop.
InvalidFrame_ends == "done"
\* Where the read loop goes after a frame that is no command: it logs a text
\* frame that does not parse, ignores a non-text frame, and reads on.
InvalidFrame == "next"

\* receiver.next() yields a frame: a non-text frame is skipped, a text frame
\* that does not parse is logged, a command goes on to the client lock.
ReadFrame(s, f) ==
    /\ rpc[s] = "next"
    /\ nframes[s] < lim.frames[s]
    /\ f \in lim.alphabet
    /\ nframes' = [nframes EXCEPT ![s] = @ + 1]
    /\ LET parsed == ParseWsMessage(f) IN
       IF parsed.ok
       THEN /\ rpc' = [rpc EXCEPT ![s] = "lock"]
            /\ cur' = [cur EXCEPT ![s] = parsed.msg]
            /\ UNCHANGED hist
       ELSE /\ rpc' = [rpc EXCEPT ![s] = InvalidFrame]
            /\ hist' = [hist EXCEPT ![s].last = f, ![s].regBefore = reg[s]]
            /\ UNCHANGED cur
    /\ UNCHANGED <<hubVars, hpc, wpc, rabort, wabort, hand, rx, reg, clientLock,
                   senderLock, sinkOk, sock>>

\* receiver.next() yields None or Some(Err): the while-let loop ends.
ReadEnd(s) ==
    /\ rpc[s] = "next"
    /\ rpc' = [rpc EXCEPT ![s] = "done"]
    /\ UNCHANGED <<hubVars, hpc, wpc, rabort, wabort, cur, hand, rx, reg,
                   clientLock, senderLock, sinkOk, nframes, sock, hist>>

\* Mutant: the read task enters without waiting for the guard.
ReadLock_noWait(s) ==
    /\ rpc[s] = "lock"
    /\ clientLock' = [clientLock EXCEPT ![s] = "read"]
    /\ rpc' = [rpc EXCEPT ![s] = "handle"]
    /\ UNCHANGED <<hubVars, hpc, wpc, rabort, wabort, cur, hand, rx, reg,
                   senderLock, sinkOk, nframes, sock, hist>>

\* client.lock().await returns the guard.
ReadLock(s) ==
    /\ rpc[s] = "lock"
    /\ clientLock[s] = "free"
    /\ clientLock' = [clientLock EXCEPT ![s] = "read"]
    /\ rpc' = [rpc EXCEPT ![s] = "handle"]
    /\ UNCHANGED <<hubVars, hpc, wpc, rabort, wabort, cur, hand, rx, reg,
                   senderLock, sinkOk, nframes, sock, hist>>

\* Mutant: one registry is shared by all sessions.
ReadHandle_shared(s) ==
    /\ rpc[s] = "handle"
    /\ reg' = [x \in Sessions |-> handle_incoming(cur[s], reg[x])]
    /\ clientLock' = [clientLock EXCEPT ![s] = "free"]
    /\ rpc' = [rpc EXCEPT ![s] = "next"]
    /\ cur' = [cur EXCEPT ![s] = NoMsg]
    /\ hist' = [hist EXCEPT
                  ![s].last = [kind |-> "text", method |-> cur[s].method,
                               channel |-> cur[s].channel],
                  ![s].regBefore = reg[s],
                  ![s].subbed = @ \/ cur[s] = [method |-> "subscribe",
                                               channel |-> "transactions"]]
    /\ UNCHANGED <<hubVars, hpc, wpc, rabort, wabort, hand, rx, senderLock,
                   sinkOk, nframes, sock>>

\* Mutant: the guard outlives the command and is held while the next frame
\* is awaited.
ReadHandle_keepsGuard(s) ==
    /\ rpc[s] = "handle"
    /\ reg' = [reg EXCEPT ![s] = handle_incoming(cur[s], @)]
    /\ rpc' = [rpc EXCEPT ![s] = "next"]
    /\ cur' = [cur EXCEPT ![s] = NoMsg]
    /\ hist' = [hist EXCEPT
                  ![s].last = [kind |-> "text", method |-> cur[s].method,
                               channel |-> cur[s].channel],
                  ![s].regBefore = reg[s],
                  ![s].subbed = @ \/ cur[s] = [method |-> "subscribe",
                                               channel |-> "transactions"]]
    /\ UNCHANGED <<hubVars, hpc, wpc, rabort, wabort, hand, rx, clientLock,
                   senderLock, sinkOk, nframes, sock>>

\* handle_incoming under the guard, then the guard is dropped.
ReadHandle(s) ==
    /\ rpc[s] = "handle"
    /\ reg' = [reg EXCEPT ![s] = handle_incoming(cur[s], @)]
    /\ clientLock' = [clientLock EXCEPT ![s] = "free"]
    /\ rpc' = [rpc EXCEPT ![s] = "next"]
    /\ cur' = [cur EXCEPT ![s] = NoMsg]
    /\ hist' = [hist EXCEPT
                  ![s].last = [kind |-> "text", method |-> cur[s].method,
                               channel |-> cur[s].channel],
                  ![s].regBefore = reg[s],
                  ![s].subbed = @ \/ cur[s] = [method |-> "subscribe",
                                               channel |-> "transactions"],
                  ![s].preSub = IF cur[s] = [method |-> "subscribe",
                                             channel |-> "transactions"]
                                THEN 1 .. gen["transactions"] ELSE @,
                  ![s].sinceCancel =
                      IF cancelled /\ handle_incoming(cur[s], reg[s]) # reg[s]
                      THEN @ \cup {"command"} ELSE @]
    /\ UNCHANGED <<hubVars, hpc, wpc, rabort, wabort, hand, rx, senderLock,
                   sinkOk, nframes, sock>>

\* ------------------------------------------------------------------ write task
\* state.heartbeat_tx.subscribe()
WriteAttachHb(s) ==
    /\ wpc[s] = "start"
    /\ rx' = [rx EXCEPT ![s]["heartbeat"] = AttachPos(log["heartbeat"])]
    /\ wpc' = [wpc EXCEPT ![s] = "att_tx"]
    /\ hist' = [hist EXCEPT ![s].att["heartbeat"] = gen["heartbeat"]]
    /\ UNCHANGED <<hubVars, hpc, rpc, rabort, wabort, cur, hand, reg, clientLock,
                   senderLock, sinkOk, nframes, sock>>

\* state.transactions_tx.subscribe()
WriteAttachTx(s) ==
    /\ wpc[s] = "att_tx"
    /\ rx' = [rx EXCEPT ![s]["transactions"] = AttachPos(log["transactions"])]
    /\ wpc' = [wpc EXCEPT ![s] = "select"]
    /\ hist' = [hist EXCEPT ![s].att["transactions"] = gen["transactions"]]
    /\ UNCHANGED <<hubVars, hpc, rpc, rabort, wabort, cur, hand, reg, clientLock,
                   senderLock, sinkOk, nframes, sock>>

\* What the registry says of Heartbeat when a heartbeat is received: it holds
\* it, or the last command was the unsubscribe(heartbeat) that removed it, or
\* it does not hold it for another reason.
HeartbeatCase(s) ==
    IF "Heartbeat" \in reg[s] THEN "subscribed"
    ELSE IF /\ hist[s].last = [kind |-> "text", method |-> "unsubscribe",
                               channel |-> "heartbeat"]
            /\ "Heartbeat" \in hist[s].regBefore
    THEN "unsubscribed"
    ELSE "absent"

\* Mutant: an Err from recv ends the write loop.
RecvError_break == "done"
\* Where the write loop goes after recv returned Err (lagged or closed): the
\* arm logs the error and the loop selects again.
RecvError == "select"

\* recv() on the session's handle for t would return at once: an event is
\* waiting, or the channel is closed.
Ready(s, t) == Attached(s, t) /\ (rx[s][t] < Len(log[t]) \/ Closed(t))

\* Mutant: the select is biased and polls the transactions arm first.
Select_biased(s, t) ==
    Ready(s, t) /\ (t = "heartbeat" => ~Ready(s, "transactions"))
\* tokio::select! polls its arms in an order it draws anew at every call, so
\* that any arm that is ready may be the one that completes; the future of
\* the other arm is dropped, and its handle keeps its position.
Select(s, t) == Ready(s, t)

\* The select of the write loop: recv() on handle t is ready, with an event
\* or, on a closed channel, with nothing left. A lagged handle and a closed
\* channel yield Err, which is logged; an event of the heartbeat arm goes to
\* the sink lock and send, one of the transactions arm to the client lock.
WriteRecv(s, t) ==
    /\ wpc[s] = "select"
    /\ Select(s, t)
    /\ LET r == Recv(rx[s][t], log[t], Cap(t)) IN
       /\ rx' = [rx EXCEPT ![s][t] = r.next]
       /\ IF r.err # "none"
          THEN /\ hist' = [hist EXCEPT ![s].errs = @ \cup {<<t, r.err>>}]
               /\ wpc' = [wpc EXCEPT ![s] = RecvError]
               /\ UNCHANGED <<hand, senderLock>>
          ELSE /\ hist' = [hist EXCEPT
                            ![s].rcvd = @ \cup {<<t, r.id>>},
                            ![s].hbSeen = IF t # "heartbeat" THEN @
                                          ELSE @ \cup {<<r.id, HeartbeatCase(s)>>}]
               /\ hand' = [hand EXCEPT ![s] = r.id]
               /\ IF t = "heartbeat"
                  THEN IF ForwardHeartbeat(reg[s])
                       THEN /\ wpc' = [wpc EXCEPT ![s] = "hb_send"]
                            /\ senderLock' = [senderLock EXCEPT ![s] = "write"]
                       ELSE UNCHANGED <<wpc, senderLock>>
                  ELSE /\ wpc' = [wpc EXCEPT ![s] = "tx_lock"]
                       /\ UNCHANGED senderLock
    /\ UNCHANGED <<hubVars, hpc, rpc, rabort, wabort, cur, reg, clientLock,
                   sinkOk, nframes, sock>>

\* Mutant: the guard of the client lock is dropped right after the check.
WriteCheck_release(s) ==
    /\ wpc[s] = "tx_lock"
    /\ clientLock[s] = "free"
    /\ hist' = [hist EXCEPT ![s].checks =
                  @ \cup {<<hand[s], "Transactions" \in reg[s]>>}]
    /\ IF ForwardTransaction(reg[s])
       THEN /\ senderLock' = [senderLock EXCEPT ![s] = "write"]
            /\ wpc' = [wpc EXCEPT ![s] = "tx_send"]
            /\ UNCHANGED <<hand, clientLock>>
       ELSE /\ wpc' = [wpc EXCEPT ![s] = "select"]
            /\ hand' = [hand EXCEPT ![s] = 0]
            /\ UNCHANGED <<clientLock, senderLock>>
    /\ UNCHANGED <<hubVars, hpc, rpc, rabort, wabort, cur, rx, reg, sinkOk,
                   nframes, sock>>

\* client.lock().await returns the guard; is_subscribed decides between taking
\* the sink lock for send and dropping the event.
WriteCheck(s) ==
    /\ wpc[s] = "tx_lock"
    /\ clientLock[s] = "free"
    /\ hist' = [hist EXCEPT ![s].checks =
                  @ \cup {<<hand[s], "Transactions" \in reg[s]>>}]
    /\ IF ForwardTransaction(reg[s])
       THEN /\ clientLock' = [clientLock EXCEPT ![s] = "write"]
            /\ senderLock' = [senderLock EXCEPT ![s] = "write"]
            /\ wpc' = [wpc EXCEPT ![s] = "tx_send"]
            /\ UNCHANGED hand
       ELSE /\ wpc' = [wpc EXCEPT ![s] = "select"]
            /\ hand' = [hand EXCEPT ![s] = 0]
            /\ UNCHANGED <<clientLock, senderLock>>
    /\ UNCHANGED <<hubVars, hpc, rpc, rabort, wabort, cur, rx, reg, sinkOk,
                   nframes, sock>>

\* send: the envelope is serialized and written; a write error is logged.
\* Either way send returns, the guards are dropped and the loop goes on.
SendTopic(s) == IF wpc[s] = "hb_send" THEN "heartbeat" ELSE "transactions"
\* Mutant: a failed write ends the write loop.
AfterSend_breaks(ok) == IF ok THEN "select" ELSE "done"
AfterSend(ok) == "select"

WriteSend(s) ==
    /\ wpc[s] \in {"hb_send", "tx_send"}
    /\ IF sinkOk[s]
       THEN /\ sock' = [sock EXCEPT ![s] =
                          Append(@, [channel |-> SendTopic(s), id |-> hand[s]])]
            /\ hist' = [hist EXCEPT ![s].sinceCancel =
                          IF cancelled THEN @ \cup {"frame"} ELSE @]
       ELSE /\ hist' = [hist EXCEPT ![s].failed = @ \cup {<<SendTopic(s), hand[s]>>}]
            /\ UNCHANGED sock
    /\ wpc' = [wpc EXCEPT ![s] = AfterSend(sinkOk[s])]
    /\ hand' = [hand EXCEPT ![s] = 0]
    /\ clientLock' = [clientLock EXCEPT ![s] = IF @ = "write" THEN "free" ELSE @]
    /\ senderLock' = [senderLock EXCEPT ![s] = "free"]
    /\ UNCHANGED <<hubVars, hpc, rpc, rabort, wabort, cur, rx, reg, sinkOk, nframes>>

\* The peer stops accepting data: later writes to the sink fail.
SinkBreak(s) ==
    /\ hpc[s] = "select"
    /\ s \in lim.breaks
    /\ sinkOk[s]
    /\ sinkOk' = [sinkOk EXCEPT ![s] = FALSE]
    /\ UNCHANGED <<hubVars, hpc, rpc, wpc, rabort, wabort, cur, hand, rx, reg,
                   clientLock, senderLock, nframes, sock, hist>>

\* ------------------------------------------------------------------ specification
\* The producers and the sessions while no shutdown is signalled.
Next ==
    \/ \E t \in Topics : Publish(t)
    \/ \E s \in Sessions : Upgrade(s)
    \/ \E s \in Sessions : HandleSelect(s)
    \/ \E s \in Sessions : TaskCancelled(s)
    \/ \E s \in Sessions : \E f \in Frames : ReadFrame(s, f)
    \/ \E s \in Sessions : ReadEnd(s)
    \/ \E s \in Sessions : ReadLock(s)
    \/ \E s \in Sessions : ReadHandle(s)
    \/ \E s \in Sessions : WriteAttachHb(s)
    \/ \E s \in Sessions : WriteAttachTx(s)
    \/ \E s \in Sessions : \E t \in Topics : WriteRecv(s, t)
    \/ \E s \in Sessions : WriteCheck(s)
    \/ \E s \in Sessions : WriteSend(s)
    \/ \E s \in Sessions : SinkBreak(s)

\* The same with the shutdown signal and the producers' exit.
NextShutdown ==
    \/ Next
    \/ Cancel
    \/ \E t \in Topics : ProducerExit(t)

\* The runtime polls a task that can run: the write task and the handle task
\* are not starved, a lock holder releases, an aborted task is dropped.
WriteStep(s) ==
    \/ WriteAttachHb(s)
    \/ WriteAttachTx(s)
    \/ \E t \in Topics : WriteRecv(s, t)
    \/ WriteCheck(s)
    \/ WriteSend(s)

ReadStep(s) == ReadLock(s) \/ ReadHandle(s)

Fairness ==
    \A s \in Sessions :
        /\ WF_vars(WriteStep(s))
        /\ WF_vars(ReadStep(s))
        /\ WF_vars(HandleSelect(s))
        /\ WF_vars(TaskCancelled(s))

Spec == Init /\ [][Next]_vars
FairSpec == InitFair /\ [][Next]_vars /\ Fairness
SpecInbound == InitInbound /\ [][Next]_vars
SpecTwo == InitTwo /\ [][Next]_vars
SpecShutdown == InitShut /\ [][NextShutdown]_vars
\* A producer's select finds the cancelled arm ready at every iteration once
\* the token is cancelled, and the stream arm only when the timer fires.
FairShutdown ==
    /\ InitShutFair /\ [][NextShutdown]_vars
    /\ \A t \in Topics : WF_vars(ProducerExit(t))
SpecLag == InitLag /\ [][Next]_vars
\* tokio's Mutex queues its waiters first come first served and the runtime
\* polls every woken task.
SpecLock == InitLock /\ [][Next]_vars /\ Fairness
\* The order in which select! polls its arms is drawn at random at every
\* call: an arm that is ready again and again is eventually the one taken.
SpecRace ==
    /\ InitRace /\ [][Next]_vars /\ Fairness
    /\ \A s \in Sessions : SF_vars(WriteRecv(s, "heartbeat"))

\* ------------------------------------------------------------------ properties
\* The transactions generated so far, by their numbers.
TxIds == 1 .. gen["transactions"]
Frame(t, id) == [channel |-> t, id |-> id]
\* The frame was written to the session's socket.
Written(s, t, id) == \E i \in 1 .. Len(sock[s]) : sock[s][i] = Frame(t, id)
\* The write task is inside send with the frame.
InSend(s, t, id) ==
    /\ wpc[s] = (IF t = "heartbeat" THEN "hb_send" ELSE "tx_send")
    /\ hand[s] = id
\* The socket refused the frame.
Refused(s, t, id) == <<t, id>> \in hist[s].failed
\* The write task took the event from its receive handle.
Received(s, t, id) == <<t, id>> \in hist[s].rcvd

\* C1: a transaction the write task received is written to the socket only if
\* the registry held Transactions when the write task checked it; one checked
\* against a registry without Transactions is dropped and nothing is written.
C1_TransactionFilter ==
    \A s \in Sessions :
        /\ \A id \in TxIds :
              (Written(s, "transactions", id) \/ InSend(s, "transactions", id)
                    \/ Refused(s, "transactions", id))
                 => <<id, TRUE>> \in hist[s].checks
        /\ \A c \in hist[s].checks :
              c[2] = FALSE =>
                 /\ ~Written(s, "transactions", c[1])
                 /\ ~InSend(s, "transactions", c[1])
                 /\ ~Refused(s, "transactions", c[1])
        /\ wpc[s] = "tx_send" => "Transactions" \in reg[s]

\* One transaction was dropped at the check and a later one written.
C1_Witness ==
    \E s \in Sessions : \E a, b \in TxIds :
        /\ <<a, FALSE>> \in hist[s].checks
        /\ <<b, TRUE>> \in hist[s].checks
        /\ Written(s, "transactions", b)

\* C2: every heartbeat the write task of a session receives goes to the
\* socket, whatever the registry held when it was received: it is written,
\* or is being written, or the broken socket refused it.
C2_HeartbeatUnfiltered ==
    \A s \in Sessions :
        wpc[s] # "aborted" =>
            \A id \in 1 .. gen["heartbeat"] :
                Received(s, "heartbeat", id) =>
                    \/ Written(s, "heartbeat", id)
                    \/ InSend(s, "heartbeat", id)
                    \/ (Refused(s, "heartbeat", id) /\ ~sinkOk[s])

\* A heartbeat received after unsubscribe(heartbeat) removed Heartbeat from
\* the registry was written.
C2_Witness ==
    \E s \in Sessions : \E id \in 1 .. gen["heartbeat"] :
        /\ <<id, "unsubscribed">> \in hist[s].hbSeen
        /\ Written(s, "heartbeat", id)

\* The registry did not hold Transactions when the write task checked id.
Dropped(s, id) == <<id, FALSE>> \in hist[s].checks
\* The event is still to come on the session's receive handle.
Ahead(s, t, id) ==
    /\ Attached(s, t)
    /\ \E p \in (rx[s][t] + 1) .. Len(log[t]) :
          log[t][p] = id /\ p > Oldest(log[t], Cap(t))
\* The event was published and the session's handle will never yield it: it
\* was published before the handle was attached, or the handle lagged past it,
\* or the handle is gone.
Missed(s, t, id) ==
    /\ id \in 1 .. gen[t]
    /\ ~Received(s, t, id)
    /\ ~Ahead(s, t, id)

\* C3 as claimed: no transaction published after subscribe(transactions) was
\* applied is ever lost to the session (dropped at the check, missed by the
\* handle or refused by the socket), so that each is written.
C3_Original ==
    \A s \in Sessions : \A id \in hist[s].pubAfterSub :
        /\ ~Dropped(s, id)
        /\ ~Missed(s, "transactions", id)
        /\ ~Refused(s, "transactions", id)

\* C3 as amended: once subscribe(transactions) was applied, every transaction
\* published afterward is eventually written to the session's socket, unless
\* the session's handle misses it (published before the handle was attached,
\* or lagged), the registry no longer holds Transactions at the check, the
\* socket refuses the write or the write task is cancelled.
C3_EventuallyObserved ==
    \A s \in Sessions : \A id \in 1 .. FairTx :
        (id \in hist[s].pubAfterSub)
            ~> \/ Written(s, "transactions", id)
               \/ Dropped(s, id)
               \/ Missed(s, "transactions", id)
               \/ Refused(s, "transactions", id)
               \/ wpc[s] = "aborted"

\* A transaction published after subscribe(transactions) was written.
C3_Witness ==
    \E s \in Sessions : \E id \in hist[s].pubAfterSub :
        /\ Written(s, "transactions", id)
        /\ id > hist[s].att["transactions"]
        /\ hist[s].att["transactions"] # NoRx

\* C4 as claimed: a transaction published while the registry did not hold
\* Transactions is never written to the session's socket.
C4_Original ==
    \A s \in Sessions : \A id \in hist[s].pubUnsub :
        ~Written(s, "transactions", id)

\* C4 as amended: a transaction published while the registry did not hold
\* Transactions is written only if it was published after the session's
\* handle was attached, subscribe(transactions) was applied after it was
\* published, and the registry held Transactions at the check.
C4_WrittenOnlyAfterSubscribe ==
    \A s \in Sessions : \A id \in hist[s].pubUnsub :
        (Written(s, "transactions", id) \/ InSend(s, "transactions", id)) =>
            /\ id \in hist[s].preSub
            /\ <<id, TRUE>> \in hist[s].checks
            /\ hist[s].att["transactions"] # NoRx
            /\ id > hist[s].att["transactions"]

\* A transaction published before subscribe(transactions) was written.
C4_Witness ==
    \E s \in Sessions : \E id \in hist[s].pubUnsub :
        /\ Written(s, "transactions", id)
        /\ id \in hist[s].preSub

\* C5: the write task's loop runs with both receive handles attached, and a
\* handle yields only events published after it was attached.
C5_NoReplay ==
    \A s \in Sessions :
        /\ wpc[s] \in {"select", "hb_send", "tx_lock", "tx_send"} =>
              \A t \in Topics : Attached(s, t) /\ hist[s].att[t] # NoRx
        /\ \A e \in hist[s].rcvd : e[2] > hist[s].att[e[1]]

\* The channel had accepted an event before the session's handle was
\* attached, and the session received a later event of the topic.
C5_Witness ==
    \E s \in Sessions : \E t \in Topics :
        /\ \E p \in 1 .. Len(log[t]) : log[t][p] <= hist[s].att[t]
        /\ \E e \in hist[s].rcvd : e[1] = t

\* C6: subscribe and unsubscribe are idempotent on every registry, and on the
\* registries the read task applies them to: a subscribe of a channel the
\* registry holds and an unsubscribe of one it does not hold leave it as it was.
C6_Idempotent ==
    /\ \A r \in SUBSET Channels : \A c \in Channels :
          /\ subscribe(subscribe(r, c), c) = subscribe(r, c)
          /\ c \in subscribe(r, c)
          /\ unsubscribe(unsubscribe(r, c), c) = unsubscribe(r, c)
          /\ c \notin r => unsubscribe(r, c) = r
          /\ c \in r => subscribe(r, c) = r
    /\ \A s \in Sessions :
          LET last == hist[s].last
              before == hist[s].regBefore IN
          /\ (last.method = "subscribe" /\ last.channel = "heartbeat"
                 /\ "Heartbeat" \in before) => reg[s] = before
          /\ (last.method = "subscribe" /\ last.channel = "transactions"
                 /\ "Transactions" \in before) => reg[s] = before
          /\ (last.method = "unsubscribe" /\ last.channel = "heartbeat"
                 /\ "Heartbeat" \notin before) => reg[s] = before
          /\ (last.method = "unsubscribe" /\ last.channel = "transactions"
                 /\ "Transactions" \notin before) => reg[s] = before

\* The read task applied subscribe(transactions) to a registry that held
\* Transactions already, and went on to read.
C6_Witness ==
    \E s \in Sessions :
        /\ hist[s].last = [kind |-> "text", method |-> "subscribe",
                           channel |-> "transactions"]
        /\ "Transactions" \in hist[s].regBefore
        /\ reg[s] = {"Transactions"}
        /\ rpc[s] = "next"

\* C7: the read task's step that handles a command whose channel name is
\* neither "heartbeat" nor "transactions" leaves the registry and the socket
\* as they were, drops the guard and returns to reading, with the handle task
\* and the write task where they were.
C7_UnknownChannel ==
    [][\A s \in Sessions :
          (/\ rpc[s] = "handle"
           /\ cur[s].channel \notin {"heartbeat", "transactions"}
           /\ rpc'[s] # rpc[s])
          => /\ reg'[s] = reg[s]
             /\ sock'[s] = sock[s]
             /\ rpc'[s] = "next"
             /\ clientLock'[s] = "free"
             /\ hpc'[s] = hpc[s]
             /\ wpc'[s] = wpc[s]]_vars

\* A command on channel "bogus" was handled in an open session, which reads on.
C7_Witness ==
    \E s \in Sessions :
        /\ hist[s].last.kind = "text"
        /\ hist[s].last.channel = "bogus"
        /\ reg[s] = hist[s].regBefore
        /\ rpc[s] = "next"
        /\ SessionState(s) = "Open"

\* C8: the read task's step that reads a text frame that does not parse, or
\* a non-text frame (a step that reads a frame and does not go on to the
\* client lock), leaves the registry, the client lock, the socket, the
\* handle task and the write task as they were and returns to reading.
C8_InvalidFrame ==
    [][\A s \in Sessions :
          (/\ nframes'[s] = nframes[s] + 1
           /\ rpc'[s] # "lock"
           /\ hist'[s].last.kind \in {"malformed", "nontext"})
          => /\ reg'[s] = reg[s]
             /\ clientLock'[s] = clientLock[s]
             /\ sock'[s] = sock[s]
             /\ rpc'[s] = "next"
             /\ hpc'[s] = hpc[s]
             /\ wpc'[s] = wpc[s]]_vars

\* A malformed frame was dropped in an open session, which reads on.
C8_Witness ==
    \E s \in Sessions :
        /\ hist[s].last.kind = "malformed"
        /\ reg[s] = hist[s].regBefore
        /\ rpc[s] = "next"
        /\ nframes[s] < lim.frames[s]
        /\ SessionState(s) = "Open"

\* C9 as claimed: once a write to the session's socket has failed, the write
\* task has terminated: it is not back in its loop and sends nothing more.
C9_WriteFailureTerminates ==
    \A s \in Sessions :
        hist[s].failed # {} => wpc[s] \in {"done", "aborted"}

\* C10: once a half of a session has terminated, the handle task aborts the
\* other half and returns: the session is eventually Closed with neither
\* task running.
C10_SingleFault ==
    \A s \in Sessions :
        (rpc[s] = "done" \/ wpc[s] = "done")
            ~> /\ SessionState(s) = "Closed"
               /\ rpc[s] \in {"done", "aborted"}
               /\ wpc[s] \in {"done", "aborted"}

\* The read task ended while the write task was running, the handle task
\* aborted the write task and returned, and the write task was dropped.
C10_Witness ==
    \E s \in Sessions :
        /\ rpc[s] = "done"
        /\ wabort[s]
        /\ wpc[s] = "aborted"
        /\ SessionState(s) = "Closed"
        /\ hist[s].rcvd # {}

\* C11: a producer that has an event publishes it whatever the backlogs of the
\* receive handles are, and a session whose backlog on a topic never exceeded
\* the channel's capacity has received every event of the topic that was
\* published after it attached and that its handle has passed: the events
\* another session's handle lost are not lost to it.
C11_SlowConsumerIsolation ==
    /\ \A t \in Topics :
          prod[t] = "running" /\ gen[t] < lim[t] => ENABLED Publish(t)
    /\ \A s \in Sessions : \A t \in Topics :
          Attached(s, t) /\ t \notin hist[s].over =>
              \A p \in 1 .. rx[s][t] :
                  log[t][p] > hist[s].att[t] => Received(s, t, log[t][p])

\* Two sessions were attached when an event was published; one fell behind by
\* more than the capacity and its handle skipped the event, the other kept up
\* and received it.
C11_Witness ==
    \E a \in Sessions : \E b \in Sessions \ {a} : \E t \in Topics :
        /\ t \in hist[a].over
        /\ <<t, "lagged">> \in hist[a].errs
        /\ t \notin hist[b].over
        /\ \E p \in 1 .. Len(log[t]) :
              /\ log[t][p] > hist[a].att[t] /\ hist[a].att[t] # NoRx
              /\ log[t][p] > hist[b].att[t] /\ hist[b].att[t] # NoRx
              /\ Attached(a, t) /\ p <= rx[a][t]
              /\ ~Received(a, t, log[t][p])
              /\ Received(b, t, log[t][p])

\* The session's handle skipped an event of the topic published after it was
\* attached.
Skipped(s, t) ==
    \E p \in 1 .. rx[s][t] :
        log[t][p] > hist[s].att[t] /\ ~Received(s, t, log[t][p])
\* The session's write task saw the gap: recv returned the lagged error.
SawGap(s, t) == <<t, "lagged">> \in hist[s].errs
\* The number of events a channel created with the topic's size retains.
Slots(t) ==
    CHOOSE m \in {1, 2, 4, 8} : m >= lim.size[t] /\ m < 2 * lim.size[t]

\* C12 as claimed: a session whose backlog on a topic exceeded the size N the
\* channel was created with has, once it has read up to the channel's tail,
\* seen a gap and lost the oldest events.
C12_Original ==
    \A s \in Sessions : \A t \in Topics :
        Attached(s, t) /\ t \in hist[s].overSize /\ rx[s][t] = Len(log[t]) =>
            SawGap(s, t) /\ Skipped(s, t)

\* A receive of the session on the topic: at a backlog over m events it is the
\* gap, which yields no event and leaves the handle at the oldest of the last
\* m events; otherwise it yields the one next event in publish order.
RecvStep(s, t, m) ==
    IF Len(log[t]) - rx[s][t] > m
    THEN /\ rx'[s][t] = Len(log[t]) - m
         /\ hist'[s].rcvd = hist[s].rcvd
         /\ SawGap(s, t)'
    ELSE /\ rx'[s][t] = rx[s][t] + 1
         /\ hist'[s].rcvd = hist[s].rcvd \cup {<<t, log[t][rx[s][t] + 1]>>}
         /\ hist'[s].errs = hist[s].errs

\* C12 as amended: with M the size N rounded up to a power of two, a session
\* whose backlog exceeded M sees a gap when it resumes and then receives
\* exactly the last M events (or fewer), in publish order; the older ones are
\* lost to it for good. A backlog of at most M events, even if over N, is
\* received whole and without a gap.
C12_LagScenario ==
    /\ [](\A s \in Sessions : \A t \in Topics :
            Attached(s, t) =>
                /\ t \in hist[s].over <=>
                      (SawGap(s, t) \/ Len(log[t]) - rx[s][t] > Slots(t))
                /\ Skipped(s, t) => SawGap(s, t)
                /\ SawGap(s, t) /\ rx[s][t] = Len(log[t]) => Skipped(s, t))
    /\ [][\A s \in Sessions : \A t \in Topics :
            Attached(s, t) /\ Attached(s, t)' /\ rx'[s][t] # rx[s][t] =>
                RecvStep(s, t, Slots(t))]_vars

\* The session read nothing while more events than the channel retains were
\* published, then saw the gap and received exactly the retained ones.
C12_Witness ==
    \E s \in Sessions :
        /\ SawGap(s, "transactions")
        /\ Attached(s, "transactions")
        /\ rx[s]["transactions"] = Len(log["transactions"])
        /\ Len(log["transactions"]) = Slots("transactions") + 1
        /\ ~Received(s, "transactions", log["transactions"][1])
        /\ \A p \in 2 .. Len(log["transactions"]) :
              Received(s, "transactions", log["transactions"][p])

\* The position of an event in the topic's publish order: the producer numbers
\* its events as it generates them and the channel accepts them in that order.
PublishOrder(t) ==
    \A p \in 1 .. Len(log[t]) : \A q \in 1 .. Len(log[t]) :
        p < q => log[t][p] < log[t][q]

\* C13: the events of one topic written to a session's socket are in publish
\* order: of two frames of the same topic the later written was published
\* later, so that the frames are a subsequence of what was published.
C13_OrderPreserved ==
    /\ \A t \in Topics : PublishOrder(t)
    /\ \A s \in Sessions :
          \A i \in 1 .. Len(sock[s]) : \A j \in 1 .. Len(sock[s]) :
              i < j /\ sock[s][i].channel = sock[s][j].channel =>
                  /\ sock[s][i].id < sock[s][j].id
                  /\ \E p \in 1 .. Len(log[sock[s][i].channel]) :
                        log[sock[s][i].channel][p] = sock[s][i].id

\* A session that lost events to a gap had three of the later transactions
\* written to its socket.
C13_Witness ==
    \E s \in Sessions :
        /\ Len(sock[s]) >= 3
        /\ \A i \in 1 .. Len(sock[s]) : sock[s][i].channel = "transactions"
        /\ \E i \in 1 .. Len(sock[s]) : sock[s][i].id + 1 < gen["transactions"]
        /\ SawGap(s, "transactions")

\* C14: a command changes the registry of the session whose read task applies
\* it and no other; a transaction is written to a session only after that
\* session's write task found Transactions in the session's own registry, so
\* that a session that never subscribed has no transaction written, whatever
\* the other sessions subscribed to.
C14_PerSessionFilter ==
    /\ [][\A a \in Sessions :
            reg'[a] # reg[a] =>
                /\ rpc[a] = "handle"
                /\ reg'[a] = handle_incoming(cur[a], reg[a])
                /\ \A b \in Sessions \ {a} : reg'[b] = reg[b]]_vars
    /\ [](\A b \in Sessions : \A id \in TxIds :
            Written(b, "transactions", id) \/ InSend(b, "transactions", id) =>
                /\ <<id, TRUE>> \in hist[b].checks
                /\ hist[b].subbed)

\* The same transaction reached two sessions: it was written to the one that
\* had subscribed and dropped at the check of the one that had not.
C14_Witness ==
    \E a \in Sessions : \E b \in Sessions \ {a} : \E id \in TxIds :
        /\ "Transactions" \in reg[a]
        /\ "Transactions" \notin reg[b]
        /\ Written(a, "transactions", id)
        /\ Received(b, "transactions", id)
        /\ <<id, FALSE>> \in hist[b].checks
        /\ ~Written(b, "transactions", id)

\* C15: once the token is cancelled it stays cancelled and each producer
\* eventually leaves its loop; the step that leaves the loop publishes
\* nothing, and a producer that has left never publishes again.
C15_ProducersStop ==
    /\ \A t \in Topics : cancelled ~> (prod[t] = "stopped")
    /\ [][cancelled => cancelled']_vars
    /\ [][\A t \in Topics :
            /\ prod'[t] # prod[t] =>
                  cancelled /\ prod'[t] = "stopped" /\ gen' = gen /\ log' = log
            /\ prod[t] = "stopped" =>
                  prod'[t] = "stopped" /\ gen'[t] = gen[t] /\ log'[t] = log[t]]_vars

\* Both producers have left their loops after the signal, one of them with
\* events it never published, while a session was attached.
C15_Witness ==
    /\ cancelled
    /\ \A t \in Topics : prod[t] = "stopped"
    /\ gen["transactions"] < lim["transactions"]
    /\ Len(log["heartbeat"]) > 0
    /\ \E s \in Sessions : Attached(s, "transactions")

C17_RecvErrorNotFatal ==
    /\ [][\A s \in Sessions :
            \/ hist'[s].errs # hist[s].errs
            \/ \E t \in Topics :
                  /\ Attached(s, t) /\ Attached(s, t)'
                  /\ rx'[s][t] # rx[s][t] /\ hist'[s].rcvd = hist[s].rcvd
            => /\ wpc[s] = "select" /\ wpc'[s] = "select"
                /\ hpc'[s] = hpc[s]
                /\ SessionState(s)' = SessionState(s)
                /\ \A t \in Topics : Attached(s, t)'
                /\ sock'[s] = sock[s]
                /\ wabort'[s] = wabort[s]]_vars
    /\ [](\A s \in Sessions : \A t \in Topics :
            /\ hist[s].errs # {}
            /\ wpc[s] = "select" /\ Attached(s, t) /\ rx[s][t] < Len(log[t])
            => ENABLED WriteRecv(s, t))

\* A session's transactions handle lagged and lost an event; the session
\* stayed open and a later transaction was received and written.
C17_Witness ==
    \E s \in Sessions :
        /\ SawGap(s, "transactions")
        /\ SessionState(s) = "Open"
        /\ \E p \in 1 .. Len(log["transactions"]) :
           \E q \in 1 .. Len(log["transactions"]) :
              /\ p < q
              /\ log["transactions"][p] > hist[s].att["transactions"]
              /\ ~Received(s, "transactions", log["transactions"][p])
              /\ Written(s, "transactions", log["transactions"][q])

\* C18: each topic's channel exists from the start and is never replaced (it
\* only ever accepts one more event) and never closed: AppState keeps a
\* sender of it also after the producer task and its sender are gone, so no
\* session's recv ever returns the closed error.
C18_ChannelsStayOpen ==
    /\ [](\A t \in Topics :
            /\ ~Closed(t)
            /\ \A s \in Sessions : <<t, "closed">> \notin hist[s].errs)
    /\ [][\A t \in Topics :
            \/ log'[t] = log[t]
            \/ \E id \in 1 .. gen'[t] : log'[t] = Append(log[t], id)]_vars

\* Both producers have exited after the signal, and a session's write task
\* that has drained both of its handles waits in recv on the channels, which
\* are still open.
C18_Witness ==
    \E s \in Sessions :
        /\ cancelled
        /\ \A t \in Topics :
              /\ prod[t] = "stopped"
              /\ Senders(t) = {"state"}
              /\ Attached(s, t)
              /\ Len(log[t]) > 0
              /\ rx[s][t] = Len(log[t])
              /\ ~ENABLED WriteRecv(s, t)
        /\ wpc[s] = "select"
        /\ SessionState(s) = "Open"

\* C19: a publish on a topic that has no receive handle attached leaves the
\* channel, the producers and every session as they were: the event is gone
\* and the producer goes on; a publish on a topic with a handle attached is
\* accepted by the channel whatever was dropped before.
C19_PublishWithoutSubscribers ==
    /\ [][\A t \in Topics :
            gen'[t] # gen[t] =>
                /\ gen'[t] = gen[t] + 1
                /\ prod' = prod /\ prod[t] = "running"
                /\ cancelled' = cancelled
                /\ UNCHANGED sessionVars
                /\ IF Receivers(t) = {}
                   THEN log' = log
                   ELSE log'[t] = Append(log[t], gen'[t])]_vars
    /\ [](\A t \in Topics :
            prod[t] = "running" /\ gen[t] < lim[t] => ENABLED Publish(t))

\* An event was published when its topic had no subscriber and is in no
\* channel; a session attached afterwards and received a later event.
C19_Witness ==
    \E s \in Sessions : \E t \in Topics :
        /\ hist[s].att[t] >= 1
        /\ \A p \in 1 .. Len(log[t]) : log[t][p] > hist[s].att[t]
        /\ \E id \in 1 .. gen[t] : id > hist[s].att[t] /\ Received(s, t, id)

\* C20: a session's state only ever moves from Open to HalfClosing and from
\* HalfClosing to Closed; it becomes Open, with both tasks running, by the
\* upgrade; Closed is never left, and in Closed the registry and the socket
\* stay as they are. The registry is already final when handle returns.
C20_Lifecycle ==
    /\ [][\A s \in Sessions :
            SessionState(s)' # SessionState(s) =>
                /\ <<SessionState(s), SessionState(s)'>> \in
                      {<<"None", "Open">>, <<"Open", "HalfClosing">>,
                       <<"HalfClosing", "Closed">>}
                /\ SessionState(s)' = "Open" =>
                      rpc'[s] = "next" /\ wpc'[s] = "start" /\ reg'[s] = {}]_vars
    /\ [][\A s \in Sessions :
            /\ SessionState(s) = "Closed" =>
                  /\ SessionState(s)' = "Closed"
                  /\ reg'[s] = reg[s]
                  /\ sock'[s] = sock[s]
            /\ hpc[s] = "done" => reg'[s] = reg[s]]_vars

\* A session that had subscribed and had frames written is Closed: its read
\* task ended, handle aborted the write task and returned, and the write task
\* was dropped.
C20_Witness ==
    \E s \in Sessions :
        /\ SessionState(s) = "Closed"
        /\ rpc[s] = "done" /\ wpc[s] = "aborted" /\ hpc[s] = "done"
        /\ reg[s] # {}
        /\ Len(sock[s]) > 0

\* ------------------------------------------------------------------ C21
\* The halves of a session inside a critical section of its registry.
InRegistry(s) ==
    (IF rpc[s] = "handle" THEN {"read"} ELSE {})
        \cup (IF wpc[s] = "tx_send" THEN {"write"} ELSE {})

RegistryExclusive ==
    \A s \in Sessions :
        /\ Cardinality(InRegistry(s)) <= 1
        /\ rpc[s] = "handle" => clientLock[s] = "read"
        /\ wpc[s] = "tx_send" => clientLock[s] = "write"
        /\ clientLock[s] = "read" => rpc[s] = "handle"

\* C21: the read task and the write task of a session are never both inside a
\* critical section of its registry; the read task holds the client lock only
\* while it applies a command, never while it waits for a frame; and a write
\* task waiting for the client lock eventually gets past it.
C21_RegistryExclusion ==
    /\ []RegistryExclusive
    /\ \A s \in Sessions : (wpc[s] = "tx_lock") ~> (wpc[s] # "tx_lock")

\* The write task waits for the client lock while the read task, which has
\* applied a command before, applies another.
C21_Witness ==
    \E s \in Sessions :
        /\ wpc[s] = "tx_lock"
        /\ rpc[s] = "handle"
        /\ clientLock[s] = "read"
        /\ nframes[s] = 2

\* ------------------------------------------------------------------ C22
\* The step writes a transaction frame to the socket of s.
WritesTransaction(s) ==
    /\ Len(sock'[s]) = Len(sock[s]) + 1
    /\ sock'[s][Len(sock'[s])].channel = "transactions"

UnsubscribeTx == [method |-> "unsubscribe", channel |-> "transactions"]

\* C22: between the is_subscribed check and the end of the socket write the
\* write task holds the client lock and the registry keeps Transactions, so
\* every transaction frame is written while the registry holds Transactions:
\* none after an applied unsubscribe(transactions) and before the next
\* applied subscribe(transactions).
C22_LockHeldThroughWrite ==
    /\ [](\A s \in Sessions :
            wpc[s] = "tx_send" =>
                clientLock[s] = "write" /\ "Transactions" \in reg[s])
    /\ [][\A s \in Sessions :
            /\ WritesTransaction(s) => "Transactions" \in reg[s]
            /\ (wpc[s] = "tx_send" /\ wpc'[s] = "tx_send") => reg'[s] = reg[s]]_vars

\* An unsubscribe(transactions) waits for the client lock while the write task
\* is between its check and its write.
C22_Witness ==
    \E s \in Sessions :
        /\ wpc[s] = "tx_send"
        /\ rpc[s] = "lock"
        /\ cur[s] = UnsubscribeTx
        /\ sinkOk[s]

\* ------------------------------------------------------------------ C23
\* A half that waits for the client lock while it is taken.
ReadBlocked(s) == rpc[s] = "lock" /\ clientLock[s] # "free"
WriteBlocked(s) == wpc[s] = "tx_lock" /\ clientLock[s] # "free"

\* C23: the client lock and the sink lock of a session never deadlock. The
\* read task holds at most the client lock and never the sink lock; the write
\* task finds the sink lock free whenever it is about to take it; the two
\* tasks are never both blocked; and whenever one is blocked on the client
\* lock, the other holds it and can take the step that releases it.
C23_NoDeadlock ==
    \A s \in Sessions :
        /\ ~(ReadBlocked(s) /\ WriteBlocked(s))
        /\ ReadBlocked(s) =>
              clientLock[s] = "write" /\ wpc[s] = "tx_send" /\ ENABLED WriteSend(s)
        /\ WriteBlocked(s) =>
              clientLock[s] = "read" /\ rpc[s] = "handle" /\ ENABLED ReadHandle(s)
        /\ wpc[s] \in {"select", "tx_lock"} => senderLock[s] = "free"
        /\ senderLock[s] # "free" =>
              senderLock[s] = "write" /\ wpc[s] \in {"hb_send", "tx_send"}
        /\ wpc[s] = "hb_send" => clientLock[s] # "write"

\* Both kinds of waiting happen: the read task waits for the client lock
\* while the write task holds it together with the sink lock, after a run in
\* which the write task held the sink lock alone for a heartbeat.
C23_Witness ==
    \E s \in Sessions :
        /\ ReadBlocked(s)
        /\ senderLock[s] = "write"
        /\ \E i \in 1 .. Len(sock[s]) : sock[s][i].channel = "heartbeat"

\* ------------------------------------------------------------------ C24
\* C24: the write task never returns, whatever it receives and whatever its
\* writes do; handle's select is decided by the read task only, so that the
\* read task is never aborted and a session is HalfClosing or Closed only
\* with its read task ended by the end of the inbound stream or a read error.
C24_OnlyInboundCloses ==
    /\ [](\A s \in Sessions :
            /\ wpc[s] # "done"
            /\ ~rabort[s] /\ rpc[s] # "aborted"
            /\ wabort[s] => rpc[s] = "done"
            /\ SessionState(s) \in {"HalfClosing", "Closed"} => rpc[s] = "done")
    /\ [][\A s \in Sessions :
            (hpc[s] = "select" /\ hpc'[s] = "done") => rpc[s] = "done"]_vars

\* A session is Closed after its write task saw a receive error and a failed
\* write and went on, and its read task ended.
C24_Witness ==
    \E s \in Sessions :
        /\ SessionState(s) = "Closed"
        /\ hist[s].errs # {}
        /\ hist[s].failed # {}
        /\ rpc[s] = "done" /\ wpc[s] = "aborted"

\* ------------------------------------------------------------------ C25
\* The step publishes a heartbeat.
PublishesHeartbeat == gen'["heartbeat"] = gen["heartbeat"] + 1

NoLossInRace ==
    \A s \in Sessions : \A t \in Topics :
        (Attached(s, t) /\ rx'[s][t] # rx[s][t] /\ rx'[s][t] # NoRx) =>
            LET r == Recv(rx[s][t], log[t], Cap(t)) IN
            /\ wpc[s] = "select"
            /\ rx'[s][t] = r.next
            /\ r.err = "none" => <<t, r.id>> \in hist'[s].rcvd
            /\ \A u \in Topics \ {t} : rx'[s][u] = rx[s][u]

====
